---- MODULE Spec2Model ----
(***************************************************************************)
(* Model of student_code.py: the class chain VersatileDigraph ->           *)
(* SortableDigraph -> TraversableDigraph -> DAG.  One graph object is      *)
(* modelled: its class, its two instance fields (nodes, edges), and a      *)
(* record of the last call made on it (operation, arguments, how it ended, *)
(* what it returned) together with a snapshot of the fields before it.     *)
(* Python iterates a set in an order that depends on hashes and insertion  *)
(* history; every place the code iterates a set is a choice over all       *)
(* orders.                                                                 *)
(***************************************************************************)
EXTENDS Integers, Sequences, FiniteSets, TLC

VARIABLES cls, nodes, edges, pre, call

vars == <<cls, nodes, edges, pre, call>>

\* Bounds of the model: node labels are 1..MaxNodes, and at most MaxEdges
\* edges are stored.
MaxNodes == 3
MaxEdges == 3

Ids == 1..MaxNodes

\* The classes an object is built from.  TraversableDigraph inherits
\* add_node, add_edge, get_neighbors, get_all_nodes and top_sort unchanged,
\* so it stands for the unguarded store; DAG overrides add_edge.
Classes == {"TraversableDigraph", "DAG"}

\* Attributes an instance has after __init__.
InstanceAttrs == {"nodes", "edges"}

\* The attribute dfs and bfs read the adjacency map from.
TraversalAttr == "_edges"

------------------------------------------------------------------------------
\* Helpers on sequences and sets.

Range(s) == {s[i] : i \in DOMAIN s}

NoDup(s) == \A i, j \in DOMAIN s : i # j => s[i] # s[j]

\* Every order in which a Python set S can be iterated.
Orders(S) == {s \in [1..Cardinality(S) -> S] : NoDup(s)}

Extend(E, n) == [k \in (DOMAIN E) \cup {n} |-> IF k \in DOMAIN E THEN E[k] ELSE {}]

EdgeCount(E) == Cardinality({p \in (DOMAIN E) \X Ids : p[2] \in E[p[1]]})

------------------------------------------------------------------------------
\* VersatileDigraph

\* add_node: self.nodes.add(node); create the adjacency entry if missing.
add_node(G, node) ==
    [nodes |-> G.nodes \cup {node},
     edges |-> IF node \in DOMAIN G.edges THEN G.edges ELSE Extend(G.edges, node)]

\* Faulty variants of add_edge: one that also stores the reverse edge, one
\* that does not create the end node, one that overwrites u's successors.
AddUndirected(G, u, v) ==
    LET G2 == add_node(add_node(G, u), v)
    IN  [G2 EXCEPT !.edges = [k \in DOMAIN G2.edges |->
            IF k = u THEN G2.edges[k] \cup {v}
            ELSE IF k = v THEN G2.edges[k] \cup {u} ELSE G2.edges[k]]]

AddNoEndNode(G, u, v) ==
    LET G1 == add_node(G, u)
    IN  [G1 EXCEPT !.edges[u] = @ \cup {v}]

AddReplacing(G, u, v) ==
    LET G2 == add_node(add_node(G, u), v)
    IN  [G2 EXCEPT !.edges[u] = {v}]

\* VersatileDigraph.add_edge: add both endpoints, then the edge u->v.
add_edge(G, u, v) ==
    LET G2 == add_node(add_node(G, u), v)
    IN  [G2 EXCEPT !.edges[u] = @ \cup {v}]

\* get_neighbors: self.edges.get(node, set()).
get_neighbors(E, node) == IF node \in DOMAIN E THEN E[node] ELSE {}

\* get_all_nodes: list(self.nodes), in any iteration order of the set.
get_all_nodes(N) == Orders(N)

------------------------------------------------------------------------------
\* SortableDigraph.top_sort (Kahn's algorithm)

Returned(v) == [status |-> "returned", error |-> "none", value |-> v]

Raised(e, v) == [status |-> "raised", error |-> e, value |-> v]

\* in_degree[neighbor] += 1 looks up a key of {n: 0 for n in self.nodes}.
InDegreeKeyError(N, E) == \E m \in N : \E x \in get_neighbors(E, m) : x \notin N

InDegreeNoSelfLoops(N, E) ==
    [n \in N |-> Cardinality({m \in N : m # n /\ n \in get_neighbors(E, m)})]

\* The in-degree table: one increment per (current_node, neighbor) pair.
InDegree(N, E) ==
    [n \in N |-> Cardinality({m \in N : n \in get_neighbors(E, m)})]

SeedNodesUpToOne(N, deg) == {n \in N : deg[n] <= 1}

\* The nodes the queue is initialised with: in_degree[n] == 0.
SeedNodes(N, deg) == {n \in N : deg[n] = 0}

\* The while loop: pop the head, append it to top_order, decrement each
\* neighbour and enqueue those that reach 0, in the order the neighbour set
\* is iterated.  The result is the set of lists the loop can end with.
RECURSIVE KahnLoop(_, _, _, _)
KahnLoop(E, deg, queue, top_order) ==
    IF queue = <<>> THEN {top_order}
    ELSE LET current == Head(queue)
             nbrs    == get_neighbors(E, current)
             deg2    == [n \in DOMAIN deg |-> IF n \in nbrs THEN deg[n] - 1 ELSE deg[n]]
             zero    == {n \in nbrs : deg2[n] = 0}
         IN  UNION {KahnLoop(E, deg2, Tail(queue) \o o, Append(top_order, current))
                        : o \in Orders(zero)}

\* top_sort: every outcome the call can have on the graph (N, E).
top_sort(N, E) ==
    IF InDegreeKeyError(N, E) THEN {Raised("KeyError", <<>>)}
    ELSE LET deg == InDegree(N, E)
         IN  {Returned(r) : r \in UNION {KahnLoop(E, deg, q, <<>>)
                                            : q \in Orders(SeedNodes(N, deg))}}

------------------------------------------------------------------------------
\* TraversableDigraph.dfs and bfs (generators, iterated to the end)

\* self._edges: the attribute lookup fails when the instance has no attribute
\* of that name.
AttrLookupFails == TraversalAttr \notin InstanceAttrs

\* _dfs(node): skip a visited node; otherwise mark it, yield it, and recurse
\* into each neighbour in iteration order.  DfsEach is the for loop over the
\* neighbours still to come.  Both give the set of (visited, out) pairs the
\* generator can end with.
RECURSIVE DfsVisit(_, _, _, _)
RECURSIVE DfsEach(_, _, _, _)
DfsVisit(E, node, visited, out) ==
    IF node \in visited THEN {[visited |-> visited, out |-> out]}
    ELSE DfsEach(E, get_neighbors(E, node), visited \cup {node}, Append(out, node))

DfsEach(E, todo, visited, out) ==
    IF todo = {} THEN {[visited |-> visited, out |-> out]}
    ELSE UNION {UNION {DfsEach(E, todo \ {x}, r.visited, r.out)
                          : r \in DfsVisit(E, x, visited, out)} : x \in todo}

\* dfs(start) iterated to the end: what was yielded and how it ended.  The
\* first node is yielded before the adjacency attribute is read.
dfs(E, start) ==
    IF AttrLookupFails THEN {Raised("AttributeError", <<start>>)}
    ELSE {Returned(r.out) : r \in DfsVisit(E, start, {}, <<>>)}

\* The neighbours of one dequeued node that are not yet visited are marked
\* and enqueued in iteration order.
RECURSIVE BfsLoop(_, _, _, _)
BfsLoop(E, visited, queue, out) ==
    IF queue = <<>> THEN {out}
    ELSE LET node  == Head(queue)
             fresh == get_neighbors(E, node) \ visited
         IN  UNION {BfsLoop(E, visited \cup fresh, Tail(queue) \o o, Append(out, node))
                        : o \in Orders(fresh)}

\* bfs(start) iterated to the end.  The start node is dequeued and yielded
\* before the adjacency attribute is read.
bfs(E, start) ==
    IF AttrLookupFails THEN {Raised("AttributeError", <<start>>)}
    ELSE {Returned(r) : r \in BfsLoop(E, {start}, <<start>>, <<>>)}

------------------------------------------------------------------------------
\* DAG.add_edge

\* Faulty variant: the edge is inserted before the check and never taken back.
DAG_add_edge_CommitFirst(G, start, end) ==
    {[res   |-> IF start \in Range(r.value)
                   THEN Raised("Exception", "cycle")
                   ELSE IF r.status = "raised" THEN Raised(r.error, "none")
                   ELSE Returned("None"),
      graph |-> add_edge(G, start, end)] : r \in dfs(add_edge(G, start, end).edges, end)}

\* for node in self.dfs(end): raise the cycle error when start is yielded; an
\* error of the generator propagates; otherwise super().add_edge(start, end).
DAG_add_edge(G, start, end) ==
    {[res   |-> IF start \in Range(r.value)
                   THEN Raised("Exception", "cycle")
                   ELSE IF r.status = "raised" THEN Raised(r.error, "none")
                   ELSE Returned("None"),
      graph |-> IF start \in Range(r.value) \/ r.status = "raised"
                   THEN G
                   ELSE add_edge(G, start, end)] : r \in dfs(G.edges, end)}

------------------------------------------------------------------------------
\* The object and the calls on it

Graph == [nodes |-> nodes, edges |-> edges]

NoEdges == [k \in {} |-> {}]

\* __init__: self.nodes = set(); self.edges = {}.
Init ==
    /\ cls \in Classes
    /\ nodes = {}
    /\ edges = NoEdges
    /\ pre = [nodes |-> {}, edges |-> NoEdges]
    /\ call = [op |-> "init", args |-> <<>>, res |-> Returned("None"), ref |-> "none"]

Call(op, args, res, ref) == [op |-> op, args |-> args, res |-> res, ref |-> ref]

\* A query leaves both fields as they are.
Query(c) ==
    /\ call' = c
    /\ pre' = Graph
    /\ UNCHANGED <<cls, nodes, edges>>

\* A call that may write the fields leaves them as G.
Update(c, G) ==
    /\ EdgeCount(G.edges) <= MaxEdges
    /\ call' = c
    /\ pre' = Graph
    /\ nodes' = G.nodes
    /\ edges' = G.edges
    /\ UNCHANGED cls

AddNode(n) ==
    /\ n \in Ids
    /\ Update(Call("add_node", <<n>>, Returned("None"), "none"), add_node(Graph, n))

\* add_edge dispatches on the class of the object.
AddEdge(u, v) ==
    \/ /\ cls = "DAG"
       /\ \E o \in DAG_add_edge(Graph, u, v) :
              Update(Call("add_edge", <<u, v>>, o.res, "none"), o.graph)
    \/ /\ cls # "DAG"
       /\ Update(Call("add_edge", <<u, v>>, Returned("None"), "none"), add_edge(Graph, u, v))

\* get_neighbors hands out the stored set itself for a known node and a new
\* empty set for an unknown one.
GetNeighbors(n) ==
    /\ n \in Ids
    /\ Query(Call("get_neighbors", <<n>>, Returned(get_neighbors(edges, n)),
                  IF n \in DOMAIN edges THEN "edges" ELSE "fresh"))

GetAllNodes ==
    \E l \in get_all_nodes(nodes) :
        Query(Call("get_all_nodes", <<>>, Returned(l), "fresh"))

TopSort ==
    \E r \in top_sort(nodes, edges) : Query(Call("top_sort", <<>>, r, "none"))

Dfs(s) ==
    /\ s \in Ids
    /\ \E r \in dfs(edges, s) : Query(Call("dfs", <<s>>, r, "none"))

Bfs(s) ==
    /\ s \in Ids
    /\ \E r \in bfs(edges, s) : Query(Call("bfs", <<s>>, r, "none"))

\* The caller adds x to, or removes x from, the collection the last query
\* returned.  A returned reference to a stored set is that set.
CallerMutate(how, x) ==
    /\ call.op \in {"get_neighbors", "get_all_nodes"}
    /\ LET E2 == IF call.ref = "edges"
                    THEN [edges EXCEPT ![call.args[1]] =
                             IF how = "add" THEN @ \cup {x} ELSE @ \ {x}]
                    ELSE edges
       IN  Update(Call("mutate_returned", <<call.op, how, x>>, Returned("None"), call.ref),
                  [nodes |-> nodes, edges |-> E2])

Next ==
    \/ \E n \in Ids : AddNode(n)
    \/ \E u, v \in Ids : AddEdge(u, v)
    \/ TopSort
    \/ \E s \in Ids : Dfs(s)
    \/ \E s \in Ids : Bfs(s)

Spec == Init /\ [][Next]_vars

\* The same object with the queries that return a collection and a caller
\* that writes to what they returned.
NextShared ==
    \/ Next
    \/ \E n \in Ids : GetNeighbors(n)
    \/ GetAllNodes
    \/ \E how \in {"add", "remove"} : \E x \in Ids : CallerMutate(how, x)

SpecShared == Init /\ [][NextShared]_vars

------------------------------------------------------------------------------
\* Graph-theoretic notions the properties are stated with

\* The nodes reachable from a node of S by a path of zero or more edges.
RECURSIVE ReachFrom(_, _)
ReachFrom(E, S) ==
    LET S2 == S \cup UNION {get_neighbors(E, n) : n \in S}
    IN  IF S2 = S THEN S ELSE ReachFrom(E, S2)

Reach(E, a) == ReachFrom(E, {a})

\* No node lies on a directed cycle (a self-loop is a cycle).
Acyclic(E) == \A n \in DOMAIN E : n \notin ReachFrom(E, get_neighbors(E, n))

Arg(i) == call.args[i]

------------------------------------------------------------------------------
\* Properties

\* C1: the edge relation stored in a DAG object never contains a directed
\* cycle (self-loops included), whatever add_node and add_edge calls were
\* made and however each of them ended.
C1_DagAcyclic == cls = "DAG" => Acyclic(edges)

C1_Witness ==
    /\ cls = "DAG"
    /\ call.op = "add_edge"
    /\ call.res.status = "raised"
    /\ Cardinality(nodes) >= 2

\* C2: a DAG add_edge(src, dst) called when dst already reaches src (or
\* src = dst) raises the cycle error and leaves the node set and every
\* successor set as they were; no endpoint is created.
C2_RejectedLeavesGraph ==
    (/\ cls = "DAG"
     /\ call.op = "add_edge"
     /\ Arg(1) \in Reach(pre.edges, Arg(2)))
    => /\ call.res.status = "raised"
       /\ call.res.error = "Exception"
       /\ nodes = pre.nodes
       /\ edges = pre.edges

\* C3: a DAG add_edge(src, dst) with src # dst and no path from dst to src
\* returns without an error, and afterwards src and dst are nodes and dst is
\* a successor of src.
C3_SafeEdgeCommitted ==
    (/\ cls = "DAG"
     /\ call.op = "add_edge"
     /\ Arg(1) # Arg(2)
     /\ Arg(1) \notin Reach(pre.edges, Arg(2)))
    => /\ call.res.status = "returned"
       /\ {Arg(1), Arg(2)} \subseteq nodes
       /\ Arg(2) \in get_neighbors(edges, Arg(1))

\* C4: on an acyclic graph top_sort returns a list holding every node exactly
\* once in which u comes before v for every edge u->v.
C4_TopSortOrder ==
    (call.op = "top_sort" /\ Acyclic(edges))
    => /\ call.res.status = "returned"
       /\ Range(call.res.value) = nodes
       /\ NoDup(call.res.value)
       /\ \A i, j \in DOMAIN call.res.value :
              call.res.value[j] \in get_neighbors(edges, call.res.value[i]) => i < j

C4_Witness ==
    /\ cls = "TraversableDigraph"
    /\ call.op = "top_sort"
    /\ call.res.status = "returned"
    /\ Acyclic(edges)
    /\ Cardinality(nodes) = 3
    /\ \E a, b, c \in nodes : a # c /\ b \in edges[a] /\ c \in edges[b]

\* C5: the length of top_sort's result equals the number of nodes exactly
\* when the graph is acyclic; on a graph with a cycle it is strictly less,
\* and no node appears twice.
C5_LengthIffAcyclic ==
    call.op = "top_sort"
    => /\ call.res.status = "returned"
       /\ (Len(call.res.value) = Cardinality(nodes)) <=> Acyclic(edges)
       /\ ~Acyclic(edges) => Len(call.res.value) < Cardinality(nodes)
       /\ NoDup(call.res.value)

C5_Witness ==
    /\ call.op = "top_sort"
    /\ call.res.status = "returned"
    /\ ~Acyclic(edges)
    /\ Len(call.res.value) > 0
    /\ Len(call.res.value) < Cardinality(nodes)

\* C6: iterating dfs(start) or bfs(start) to the end completes without an
\* error and yields exactly the nodes reachable from start, each once.
C6_TraversalReachable ==
    call.op \in {"dfs", "bfs"}
    => /\ call.res.status = "returned"
       /\ Range(call.res.value) = Reach(edges, Arg(1))
       /\ NoDup(call.res.value)

\* C7: on the unguarded store add_edge(u, v) succeeds; afterwards u and v are
\* nodes, v is a neighbour of u, every earlier node is still a node, and the
\* successor set of every node other than u is as before.
C7_AddEdgeFrame ==
    (cls # "DAG" /\ call.op = "add_edge")
    => /\ call.res.status = "returned"
       /\ {Arg(1), Arg(2)} \subseteq nodes
       /\ Arg(2) \in get_neighbors(edges, Arg(1))
       /\ pre.nodes \subseteq nodes
       /\ \A n \in Ids \ {Arg(1)} :
              get_neighbors(edges, n) = get_neighbors(pre.edges, n)

C7_Witness ==
    /\ cls # "DAG"
    /\ call.op = "add_edge"
    /\ pre.nodes # {}
    /\ Arg(1) # Arg(2)
    /\ {Arg(1), Arg(2)} \cap pre.nodes = {}
    /\ \E n \in pre.nodes : pre.edges[n] # {}

\* C8 as stated: every add_edge(u, v) on the unguarded store adds one more
\* edge record from u, also when u->v is already stored.
C8_NoDeduplication ==
    (cls # "DAG" /\ call.op = "add_edge")
    => Cardinality(get_neighbors(edges, Arg(1)))
           = Cardinality(get_neighbors(pre.edges, Arg(1))) + 1

\* C8 amended: the successors of u are a set; add_edge(u, v) adds one record
\* when u->v was not stored and none when it was, so adding the same edge
\* twice leaves one u->v record.
C8_Deduplicates ==
    (cls # "DAG" /\ call.op = "add_edge")
    => /\ get_neighbors(edges, Arg(1)) = get_neighbors(pre.edges, Arg(1)) \cup {Arg(2)}
       /\ Cardinality(get_neighbors(edges, Arg(1)))
              = Cardinality(get_neighbors(pre.edges, Arg(1)))
                + (IF Arg(2) \in get_neighbors(pre.edges, Arg(1)) THEN 0 ELSE 1)

C8_Witness ==
    /\ cls # "DAG"
    /\ call.op = "add_edge"
    /\ Arg(2) \in get_neighbors(pre.edges, Arg(1))
    /\ Cardinality(get_neighbors(pre.edges, Arg(1))) = 2
    /\ Cardinality(get_neighbors(edges, Arg(1))) = 2

\* C9: whatever the caller does to a collection a query returned, the node
\* set and every successor set of the graph stay as they were.
C9_QueriesExposeNothing ==
    call.op = "mutate_returned" => (nodes = pre.nodes /\ edges = pre.edges)

\* C10: the keys of the adjacency map are exactly the nodes, every edge
\* target is a node, and top_sort's in-degree lookup never misses a key.
C10_KeysAreNodes ==
    /\ DOMAIN edges = nodes
    /\ \A k \in DOMAIN edges : edges[k] \subseteq nodes
    /\ call.op = "top_sort" => call.res.error # "KeyError"

C10_Witness ==
    /\ cls # "DAG"
    /\ call.op = "top_sort"
    /\ call.res.status = "returned"
    /\ pre.nodes = Ids
    /\ EdgeCount(edges) >= 3

====
